---- MODULE Spec2Model ----
(***************************************************************************)
(* mharender: the image-to-mesh pipeline of main.py (load_image,           *)
(* generate_height_map, create_3d_mesh, apply_style, apply_texture,        *)
(* save_obj), its command line entry point main(), and the Convert handler *)
(* of the Streamlit front end app.py.                                      *)
(*                                                                         *)
(* Numbers.  A Python float is represented by the integer count of         *)
(* quarters it holds (1.0 is 4, 0.5 is 2, 1.5 is 6).  The pixels of the    *)
(* decoded gray image are drawn from {0, MaxGray}: these are the levels    *)
(* whose float32 quotient by 255.0 is exact, so that every number the      *)
(* pipeline computes (0.0, 0.5, 1.0, 1.5 and the integral grid             *)
(* coordinates) is a multiple of a quarter and Python's repr of it is      *)
(* modelled digit for digit.                                               *)
(*                                                                         *)
(* Text.  A file's content is the sequence of its characters, each a       *)
(* one-character string, line terminators included.                        *)
(*                                                                         *)
(* Objects.  Python lists of vertices live in heap; a variable holds a     *)
(* reference (an index into heap, None is 0), so that returning the        *)
(* argument itself and returning a new list are different things.          *)
(***************************************************************************)
EXTENDS Integers, Sequences, FiniteSets, TLC

\* ------------------------------------------------------------------ bounds
\* Largest width and height of a decoded image.
MaxDim == 2
\* Largest number of vertices / faces of a mesh handed directly to save_obj.
MaxV == 2
MaxF == 1

\* --------------------------------------------------------------- constants
\* height_map = gray.astype(np.float32) / 255.0
MaxGray == 255

\* Python's None, for a variable that holds a reference, an image or a call
None == 0
NoImage == <<>>
NoCall == [vertices |-> None, faces |-> <<>>, output_path |-> ""]

VARIABLES
  entry,            \* "cli" (main), "app" (Convert handler), "lib" (save_obj called directly)
  pc,               \* position of the running entry point
  cv2,              \* TRUE iff `import cv2` succeeded (main.py lines 4-7)
  input_file,       \* what args.input_file / uploaded_file is
  style,            \* args.style / the selectbox value
  texture,          \* what args.texture / texture_file is
  image,            \* the decoded source image (its gray levels), or None
  texture_img,      \* the decoded texture image, or None
  height_map,       \* result of generate_height_map, or None
  heap,             \* the vertex lists allocated so far
  vertices,         \* reference returned by create_3d_mesh
  faces,            \* face list returned by create_3d_mesh
  vertices_styled,  \* reference returned by apply_style / apply_texture
  call,             \* the parameters of the running save_obj call, or None
  written,          \* number of f.write calls save_obj has completed
  fs,               \* the files: path -> [exists, data]
  created,          \* temporary paths handed out by NamedTemporaryFile
  unlinks,          \* path -> number of os.unlink calls on it
  exc,              \* the exception that ended the run, or "none"
  ui                \* messages shown to the user (st.error, st.success, print)

vars == <<entry, pc, cv2, input_file, style, texture, image, texture_img,
          height_map, heap, vertices, faces, vertices_styled, call, written,
          fs, created, unlinks, exc, ui>>

\* ------------------------------------------------------------------ values
Styles == {"modern", "classic", "nostalgic"}
Pixels == {0, MaxGray}
Images == UNION {[1..h -> [1..w -> Pixels]] : w \in 1..MaxDim, h \in 1..MaxDim}
TextureImages == [1..1 -> [1..1 -> Pixels]]
Paths == {"output", "input_tmp", "tex_tmp"}
Absent == [exists |-> FALSE, data |-> <<>>]

\* ------------------------------------------------------- Python text of numbers
DigitChars == <<"0", "1", "2", "3", "4", "5", "6", "7", "8", "9">>

RECURSIVE StrInt(_)
\* str(n) of an int n >= 0
StrInt(n) ==
  IF n < 10 THEN <<DigitChars[n + 1]>>
  ELSE StrInt(n \div 10) \o <<DigitChars[(n % 10) + 1]>>

\* repr of a float q/4 >= 0: the integer part, a point, the shortest fraction
StrFloat(q) ==
  StrInt(q \div 4) \o <<".">> \o
    (CASE q % 4 = 0 -> <<"0">>
       [] q % 4 = 1 -> <<"2", "5">>
       [] q % 4 = 2 -> <<"5">>
       [] q % 4 = 3 -> <<"7", "5">>)

\* float(n) of an int n
FloatOfInt(n) == 4 * n

RECURSIVE Join(_, _)
\* sep.join(parts)
Join(sep, parts) ==
  IF Len(parts) = 0 THEN <<>>
  ELSE IF Len(parts) = 1 THEN parts[1]
  ELSE parts[1] \o <<sep>> \o Join(sep, Tail(parts))

\* ---------------------------------------------------------------- load_image
\* The outcome of load_image on a file of the given kind: "ok" or the
\* exception it raises.
LoadImage(kind) ==
  CASE kind = "pdf" -> "NotImplementedError"
    [] kind = "dwg" -> "NotImplementedError"
    [] ~cv2 -> "ImportError"
    [] kind = "corrupt" -> "FileNotFoundError"
    [] OTHER -> "ok"

\* ------------------------------------------------------- generate_height_map
GenerateHeightMap(img) ==
  [r \in 1..Len(img) |-> [c \in 1..Len(img[r]) |-> (4 * img[r][c]) \div MaxGray]]

\* ------------------------------------------------------------ create_3d_mesh
ShapeH(hm) == Len(hm)
ShapeW(hm) == Len(hm[1])

RECURSIVE InnerLoop(_, _, _)
\* for x in range(w): vertices.append([float(x), float(y), float(z)])
InnerLoop(hm, y, x) ==
  IF x >= ShapeW(hm) THEN <<>>
  ELSE <<<<FloatOfInt(x), FloatOfInt(y), hm[y + 1][x + 1]>>>> \o InnerLoop(hm, y, x + 1)

RECURSIVE OuterLoop(_, _)
\* for y in range(h): ...
OuterLoop(hm, y) ==
  IF y >= ShapeH(hm) THEN <<>>
  ELSE InnerLoop(hm, y, 0) \o OuterLoop(hm, y + 1)

RECURSIVE SwappedInner(_, _, _)
SwappedInner(hm, x, y) ==
  IF y >= ShapeH(hm) THEN <<>>
  ELSE <<<<FloatOfInt(x), FloatOfInt(y), hm[y + 1][x + 1]>>>> \o SwappedInner(hm, x, y + 1)

RECURSIVE SwappedOuter(_, _)
SwappedOuter(hm, x) ==
  IF x >= ShapeW(hm) THEN <<>>
  ELSE SwappedInner(hm, x, 0) \o SwappedOuter(hm, x + 1)

\* create_3d_mesh with its two loops exchanged (column-major order)
Create3dMeshVerticesColumnMajor(hm) == SwappedOuter(hm, 0)

\* the vertices list create_3d_mesh returns
Create3dMeshVertices(hm) == OuterLoop(hm, 0)

\* the faces list create_3d_mesh returns: nothing is ever appended to it
Create3dMeshFaces(hm) == <<>>

\* --------------------------------------------------------------- apply_style
\* the two multipliers exchanged
StyleZSwapped(z, s) ==
  CASE s = "classic" -> (z * 3) \div 2
    [] s = "nostalgic" -> z \div 2
    [] OTHER -> z

\* v[2] * 0.5, v[2] * 1.5 (exact on the even counts of quarters the pipeline
\* holds), or v[2] itself
StyleZ(z, s) ==
  CASE s = "classic" -> z \div 2
    [] s = "nostalgic" -> (z * 3) \div 2
    [] OTHER -> z

\* the list comprehension of the classic and nostalgic branches
StyledList(vs, s) == [i \in 1..Len(vs) |-> <<vs[i][1], vs[i][2], StyleZ(vs[i][3], s)>>]

\* apply_style on the list at ref: the two comprehensions build a new list,
\* the last return hands back the argument itself
ApplyStyle(h, ref, s) ==
  IF s \in {"classic", "nostalgic"}
  THEN [heap |-> Append(h, StyledList(h[ref], s)), ref |-> Len(h) + 1]
  ELSE [heap |-> h, ref |-> ref]

\* ------------------------------------------------------------- apply_texture
\* returns its first argument; the texture image is not read
ApplyTexture(h, ref, tex) == [heap |-> h, ref |-> ref]

\* ------------------------------------------------------------------ save_obj
\* f"v {v[0]} {v[1]} {v[2]}\n"
VertexLine(v) ==
  <<"v", " ">> \o StrFloat(v[1]) \o <<" ">> \o StrFloat(v[2]) \o <<" ">>
    \o StrFloat(v[3]) \o <<"\n">>

FaceLineZeroBased(face) ==
  <<"f", " ">> \o Join(" ", [k \in 1..Len(face) |-> StrInt(face[k])]) \o <<"\n">>

\* "f " + " ".join(str(idx + 1) for idx in face) + "\n"
FaceLine(face) ==
  <<"f", " ">> \o Join(" ", [k \in 1..Len(face) |-> StrInt(face[k] + 1)]) \o <<"\n">>

\* the text save_obj has written after n completed f.write calls
RECURSIVE ObjText(_, _, _)
ObjText(vs, fcs, n) ==
  IF n = 0 THEN <<>>
  ELSE ObjText(vs, fcs, n - 1) \o
         (IF n <= Len(vs) THEN VertexLine(vs[n]) ELSE FaceLine(fcs[n - Len(vs)]))

\* the file a previous, complete conversion left at the output path
OldObj == VertexLine(<<FloatOfInt(7), FloatOfInt(7), FloatOfInt(7)>>)

\* ---------------------------------------------------------------------- Init
Blank ==
  /\ image = NoImage
  /\ texture_img = NoImage
  /\ height_map = NoImage
  /\ vertices = None
  /\ faces = <<>>
  /\ vertices_styled = None
  /\ written = 0
  /\ created = {}
  /\ unlinks = [p \in Paths |-> 0]
  /\ exc = "none"
  /\ ui = <<>>
  /\ \E old \in BOOLEAN :
       fs = [p \in Paths |->
               IF p = "output" /\ old THEN [exists |-> TRUE, data |-> OldObj] ELSE Absent]

Init ==
  /\ Blank
  /\ cv2 \in BOOLEAN
  /\ style \in Styles
  /\ heap = <<>>
  /\ call = NoCall
  /\ \/ /\ entry = "cli"
        /\ pc = "main_load"
        /\ input_file \in {"image", "corrupt", "pdf", "dwg"}
        /\ texture \in {"none", "image", "corrupt", "pdf", "dwg"}
     \/ /\ entry = "app"
        /\ pc = "app_button"
        /\ input_file \in {"none", "image", "corrupt"}
        /\ texture \in {"none", "image", "corrupt"}

\* meshes handed directly to save_obj
VertexPool ==
  {<<0, 0, 0>>, <<4, 0, 2>>, <<0, 4, 6>>, <<40, 4, 1>>, <<4, 4, 3>>, <<49, 0, 7>>}
FacePool == {<<0, 1, 2>>, <<0, 2, 1>>, <<2, 3, 1>>, <<8, 9, 99>>}
SeqsUpTo(S, n) == UNION {[1..k -> S] : k \in 0..n}

InitSaveObj ==
  /\ Blank
  /\ cv2 = TRUE
  /\ style = "modern"
  /\ input_file = "none"
  /\ texture = "none"
  /\ entry = "lib"
  /\ pc = "save_open"
  /\ \E V \in SeqsUpTo(VertexPool, MaxV), F \in SeqsUpTo(FacePool, MaxF) :
       /\ heap = <<V>>
       /\ call = [vertices |-> 1, faces |-> F, output_path |-> "output"]

\* ------------------------------------------------------------------- main()
\* image = load_image(args.input_file)
MainLoadImage ==
  /\ pc = "main_load"
  /\ IF LoadImage(input_file) = "ok"
     THEN /\ \E img \in Images : image' = img
          /\ pc' = "main_height"
          /\ exc' = exc
     ELSE /\ exc' = LoadImage(input_file)
          /\ pc' = "done"
          /\ image' = image
  /\ UNCHANGED <<entry, cv2, input_file, style, texture, texture_img, height_map,
                 heap, vertices, faces, vertices_styled, call, written, fs,
                 created, unlinks, ui>>

\* height_map = generate_height_map(image)
MainGenerateHeightMap ==
  /\ pc = "main_height"
  /\ height_map' = GenerateHeightMap(image)
  /\ pc' = "main_mesh"
  /\ UNCHANGED <<entry, cv2, input_file, style, texture, image, texture_img,
                 heap, vertices, faces, vertices_styled, call, written, fs,
                 created, unlinks, exc, ui>>

\* vertices, faces = create_3d_mesh(height_map)
MainCreate3dMesh ==
  /\ pc = "main_mesh"
  /\ heap' = Append(heap, Create3dMeshVertices(height_map))
  /\ vertices' = Len(heap) + 1
  /\ faces' = Create3dMeshFaces(height_map)
  /\ pc' = "main_style"
  /\ UNCHANGED <<entry, cv2, input_file, style, texture, image, texture_img,
                 height_map, vertices_styled, call, written, fs, created,
                 unlinks, exc, ui>>

\* vertices = apply_style(vertices, args.style)
MainApplyStyle ==
  /\ pc = "main_style"
  /\ heap' = ApplyStyle(heap, vertices, style).heap
  /\ vertices_styled' = ApplyStyle(heap, vertices, style).ref
  /\ pc' = "main_texture"
  /\ UNCHANGED <<entry, cv2, input_file, style, texture, image, texture_img,
                 height_map, vertices, faces, call, written, fs, created,
                 unlinks, exc, ui>>

\* if args.texture: (not taken)
MainNoTexture ==
  /\ pc = "main_texture"
  /\ texture = "none"
  /\ pc' = "main_save"
  /\ UNCHANGED <<entry, cv2, input_file, style, texture, image, texture_img,
                 height_map, heap, vertices, faces, vertices_styled, call,
                 written, fs, created, unlinks, exc, ui>>

\* texture_img = load_image(args.texture); vertices = apply_texture(...)
MainApplyTexture ==
  /\ pc = "main_texture"
  /\ texture # "none"
  /\ IF LoadImage(texture) = "ok"
     THEN /\ \E img \in TextureImages :
               /\ texture_img' = img
               /\ heap' = ApplyTexture(heap, vertices_styled, img).heap
               /\ vertices_styled' = ApplyTexture(heap, vertices_styled, img).ref
          /\ pc' = "main_save"
          /\ exc' = exc
     ELSE /\ exc' = LoadImage(texture)
          /\ pc' = "done"
          /\ UNCHANGED <<texture_img, heap, vertices_styled>>
  /\ UNCHANGED <<entry, cv2, input_file, style, texture, image, height_map,
                 vertices, faces, call, written, fs, created, unlinks, ui>>

\* save_obj(vertices, faces, args.output): the parameters are bound
MainSaveObj ==
  /\ pc = "main_save"
  /\ call' = [vertices |-> vertices_styled, faces |-> faces, output_path |-> "output"]
  /\ pc' = "save_open"
  /\ UNCHANGED <<entry, cv2, input_file, style, texture, image, texture_img,
                 height_map, heap, vertices, faces, vertices_styled, written,
                 fs, created, unlinks, exc, ui>>

\* print(f"Model saved to {args.output}")
MainPrint ==
  /\ pc = "main_print"
  /\ ui' = Append(ui, "Model saved")
  /\ pc' = "done"
  /\ UNCHANGED <<entry, cv2, input_file, style, texture, image, texture_img,
                 height_map, heap, vertices, faces, vertices_styled, call,
                 written, fs, created, unlinks, exc>>

\* ----------------------------------------------------------------- save_obj
\* with open(output_path, "w") as f: the file is created or truncated, or
\* open raises and the file system is as it was
SaveOpen ==
  /\ pc = "save_open"
  /\ \E ok \in BOOLEAN :
       IF ok
       THEN /\ fs' = [fs EXCEPT ![call.output_path] = [exists |-> TRUE, data |-> <<>>]]
            /\ written' = 0
            /\ pc' = "save_write"
            /\ exc' = exc
       ELSE /\ exc' = "OSError"
            /\ pc' = "done"
            /\ UNCHANGED <<fs, written>>
  /\ UNCHANGED <<entry, cv2, input_file, style, texture, image, texture_img,
                 height_map, heap, vertices, faces, vertices_styled, call,
                 created, unlinks, ui>>

\* the next f.write of the two loops: the vertices first, then the faces; a
\* write that raises leaves the file, closed by the with statement, holding
\* what was written before it
SaveWrite ==
  /\ pc = "save_write"
  /\ written < Len(heap[call.vertices]) + Len(call.faces)
  /\ \E ok \in BOOLEAN :
       IF ok
       THEN /\ fs' = [fs EXCEPT ![call.output_path].data =
                        @ \o (IF written < Len(heap[call.vertices])
                              THEN VertexLine(heap[call.vertices][written + 1])
                              ELSE FaceLine(call.faces[written - Len(heap[call.vertices]) + 1]))]
            /\ written' = written + 1
            /\ UNCHANGED <<pc, exc>>
       ELSE /\ exc' = "OSError"
            /\ pc' = "done"
            /\ UNCHANGED <<fs, written>>
  /\ UNCHANGED <<entry, cv2, input_file, style, texture, image, texture_img,
                 height_map, heap, vertices, faces, vertices_styled, call,
                 created, unlinks, ui>>

\* both loops are exhausted: the with statement closes the file, save_obj returns
SaveClose ==
  /\ pc = "save_write"
  /\ written = Len(heap[call.vertices]) + Len(call.faces)
  /\ pc' = IF entry = "cli" THEN "main_print" ELSE "done"
  /\ UNCHANGED <<entry, cv2, input_file, style, texture, image, texture_img,
                 height_map, heap, vertices, faces, vertices_styled, call,
                 written, fs, created, unlinks, exc, ui>>

\* --------------------------------------------------- app.py, Convert handler
\* os.unlink(p)
Unlink(p) ==
  /\ fs' = [fs EXCEPT ![p] = Absent]
  /\ unlinks' = [unlinks EXCEPT ![p] = @ + 1]

\* if uploaded_file is None: st.error(...)
AppNoUpload ==
  /\ pc = "app_button"
  /\ input_file = "none"
  /\ ui' = Append(ui, "error: Please upload a valid image file.")
  /\ pc' = "done"
  /\ UNCHANGED <<entry, cv2, input_file, style, texture, image, texture_img,
                 height_map, heap, vertices, faces, vertices_styled, call,
                 written, fs, created, unlinks, exc>>

\* with tempfile.NamedTemporaryFile(delete=False, suffix=suffix) as tmp: ...
AppSaveUpload ==
  /\ pc = "app_button"
  /\ input_file # "none"
  /\ created' = created \cup {"input_tmp"}
  /\ fs' = [fs EXCEPT !["input_tmp"] = [exists |-> TRUE, data |-> <<input_file>>]]
  /\ pc' = "app_load"
  /\ UNCHANGED <<entry, cv2, input_file, style, texture, image, texture_img,
                 height_map, heap, vertices, faces, vertices_styled, call,
                 written, unlinks, exc, ui>>

\* try: img = load_image(input_path)
\* except Exception as e: st.error(...); os.unlink(input_path)
AppLoadImage ==
  /\ pc = "app_load"
  /\ IF LoadImage(input_file) = "ok"
     THEN /\ \E img \in Images : image' = img
          /\ pc' = "app_else"
          /\ UNCHANGED <<fs, unlinks, ui>>
     ELSE /\ ui' = Append(ui, "error: Error loading image")
          /\ Unlink("input_tmp")
          /\ pc' = "app_finally"
          /\ image' = image
  /\ UNCHANGED <<entry, cv2, input_file, style, texture, texture_img, height_map,
                 heap, vertices, faces, vertices_styled, call, written,
                 created, exc>>

\* else: if isinstance(img, PILImage): PILImage is the module PIL.Image, not a
\* class, so isinstance raises TypeError and the rest of the else block
\* (lines 60-98: height map, mesh, style, texture, save_obj, download) never
\* runs; control passes to the finally clause
AppIsInstance ==
  /\ pc = "app_else"
  /\ exc' = "TypeError"
  /\ pc' = "app_finally"
  /\ UNCHANGED <<entry, cv2, input_file, style, texture, image, texture_img,
                 height_map, heap, vertices, faces, vertices_styled, call,
                 written, fs, created, unlinks, ui>>

\* the finally clause with its os.path.exists test left out
AppFinallyUnconditional ==
  /\ pc = "app_finally"
  /\ Unlink("input_tmp")
  /\ pc' = "done"
  /\ UNCHANGED <<entry, cv2, input_file, style, texture, image, texture_img,
                 height_map, heap, vertices, faces, vertices_styled, call,
                 written, created, exc, ui>>

\* finally: if os.path.exists(input_path): os.unlink(input_path)
AppFinally ==
  /\ pc = "app_finally"
  /\ IF fs["input_tmp"].exists
     THEN Unlink("input_tmp")
     ELSE UNCHANGED <<fs, unlinks>>
  /\ pc' = "done"
  /\ UNCHANGED <<entry, cv2, input_file, style, texture, image, texture_img,
                 height_map, heap, vertices, faces, vertices_styled, call,
                 written, created, exc, ui>>

\* ----------------------------------------------------------- specifications
Next ==
  \/ MainLoadImage
  \/ MainGenerateHeightMap
  \/ MainCreate3dMesh
  \/ MainApplyStyle
  \/ MainNoTexture
  \/ MainApplyTexture
  \/ MainSaveObj
  \/ SaveOpen
  \/ SaveWrite
  \/ SaveClose
  \/ MainPrint
  \/ AppNoUpload
  \/ AppSaveUpload
  \/ AppLoadImage
  \/ AppIsInstance
  \/ AppFinally

Spec == Init /\ [][Next]_vars

NextSaveObj ==
  \/ SaveOpen
  \/ SaveWrite
  \/ SaveClose

SpecSaveObj == InitSaveObj /\ [][NextSaveObj]_vars

\* ------------------------------------------------- reading an OBJ file back
\* s.split(c)
RECURSIVE Split(_, _)
Split(s, c) ==
  IF \A i \in 1..Len(s) : s[i] # c THEN <<s>>
  ELSE LET i == CHOOSE k \in 1..Len(s) : s[k] = c /\ \A j \in 1..(k - 1) : s[j] # c
       IN <<SubSeq(s, 1, i - 1)>> \o Split(SubSeq(s, i + 1, Len(s)), c)

\* the lines of a text, without their terminators
FileLines(data) == SubSeq(Split(data, "\n"), 1, Len(Split(data, "\n")) - 1)

DigitValue(ch) == CHOOSE d \in 0..9 : DigitChars[d + 1] = ch

\* int(tok)
RECURSIVE ParseInt(_)
ParseInt(tok) ==
  IF Len(tok) = 0 THEN 0
  ELSE 10 * ParseInt(SubSeq(tok, 1, Len(tok) - 1)) + DigitValue(tok[Len(tok)])

RECURSIVE Pow10(_)
Pow10(n) == IF n = 0 THEN 1 ELSE 10 * Pow10(n - 1)

\* float(tok), in quarters
ParseFloat(tok) ==
  LET parts == Split(tok, ".")
  IN 4 * ParseInt(parts[1]) + (4 * ParseInt(parts[2])) \div Pow10(Len(parts[2]))

Tokens(line) == Split(line, " ")
LinesOfKind(data, kind) == {i \in 1..Len(FileLines(data)) : Tokens(FileLines(data)[i])[1] = kind}
ParseV(line) == <<ParseFloat(Tokens(line)[2]), ParseFloat(Tokens(line)[3]), ParseFloat(Tokens(line)[4])>>
ParseF(line) == [k \in 1..(Len(Tokens(line)) - 1) |-> ParseInt(Tokens(line)[k + 1]) - 1]

\* the output path as a previous run may have left it
Untouched(f) == f = Absent \/ f = [exists |-> TRUE, data |-> OldObj]

\* what the run writes for this image and style when no texture is given
NoTextureText ==
  LET hm == GenerateHeightMap(image)
      r == ApplyStyle(<<Create3dMeshVertices(hm)>>, 1, style)
      vs == r.heap[r.ref]
      fc == Create3dMeshFaces(hm)
  IN ObjText(vs, fc, Len(vs) + Len(fc))

\* ------------------------------------------------------------------- claims

\* C1: for a height field of width W >= 2 and height H >= 2, create_3d_mesh
\* returns W*H vertices and 2*(W-1)*(H-1) faces, every face index in 0..W*H-1.
C1_MeshCounts ==
  (vertices # None /\ ShapeW(height_map) >= 2 /\ ShapeH(height_map) >= 2) =>
    /\ Len(heap[vertices]) = ShapeW(height_map) * ShapeH(height_map)
    /\ Len(faces) = 2 * (ShapeW(height_map) - 1) * (ShapeH(height_map) - 1)
    /\ \A j \in 1..Len(faces) : \A k \in 1..Len(faces[j]) :
         faces[j][k] >= 0 /\ faces[j][k] < ShapeW(height_map) * ShapeH(height_map)

\* the list at ref has one vertex per grid cell, the cell (row, col) at
\* index row*W + col with x = col and y = row
GridOrder(ref) ==
  LET W == ShapeW(height_map)
      H == ShapeH(height_map)
  IN /\ Len(heap[ref]) = W * H
     /\ \A row \in 0..(H - 1) : \A col \in 0..(W - 1) :
          /\ heap[ref][row * W + col + 1][1] = FloatOfInt(col)
          /\ heap[ref][row * W + col + 1][2] = FloatOfInt(row)

\* C2: the vertex at index row*W + col of create_3d_mesh's result has x = col,
\* y = row and z the sample at (row, col); the correspondence and the length
\* W*H still hold after apply_style and apply_texture and in the list bound
\* to save_obj's vertices parameter.
C2_IndexIdentity ==
  /\ vertices # None =>
       /\ GridOrder(vertices)
       /\ \A row \in 0..(ShapeH(height_map) - 1) : \A col \in 0..(ShapeW(height_map) - 1) :
            heap[vertices][row * ShapeW(height_map) + col + 1][3] = height_map[row + 1][col + 1]
  /\ vertices_styled # None => GridOrder(vertices_styled)
  /\ call.vertices # None => GridOrder(call.vertices)

\* a 2x2 grid, styled and textured, has reached save_obj
C2_Witness ==
  /\ pc = "done"
  /\ exc = "none"
  /\ call.vertices # None
  /\ texture_img # NoImage
  /\ style = "nostalgic"
  /\ ShapeW(height_map) = 2
  /\ ShapeH(height_map) = 2

\* C3: apply_style returns a list of the same length with x and y unchanged
\* and z halved (classic), multiplied by 1.5 (nostalgic) or unchanged
\* (modern); the list it was given still holds what create_3d_mesh built.
C3_ApplyStyle ==
  vertices_styled # None =>
    /\ Len(heap[vertices_styled]) = Len(heap[vertices])
    /\ \A i \in 1..Len(heap[vertices]) :
         /\ heap[vertices_styled][i][1] = heap[vertices][i][1]
         /\ heap[vertices_styled][i][2] = heap[vertices][i][2]
         /\ style = "classic" => 2 * heap[vertices_styled][i][3] = heap[vertices][i][3]
         /\ style = "nostalgic" => 2 * heap[vertices_styled][i][3] = 3 * heap[vertices][i][3]
         /\ style = "modern" => heap[vertices_styled][i][3] = heap[vertices][i][3]
    /\ heap[vertices] = Create3dMeshVertices(height_map)

\* a list with a raised vertex has been styled "nostalgic"
C3_Witness ==
  /\ vertices_styled # None
  /\ style = "nostalgic"
  /\ Len(heap[vertices]) >= 2
  /\ \E i \in 1..Len(heap[vertices]) : heap[vertices][i][3] > 0

\* C4: with a height field of width 1 or height 1 create_3d_mesh returns no
\* mesh, the run ends with InvalidHeightField, save_obj is not called and
\* the output path is left as it was.
C4_InvalidHeightField ==
  (image # NoImage /\ (Len(image) = 1 \/ Len(image[1]) = 1)) =>
    /\ vertices = None
    /\ call = NoCall
    /\ Untouched(fs["output"])
    /\ pc = "done" => exc = "InvalidHeightField"

\* C5: a texture that is supplied but fails to load does not abort the run:
\* it ends having written what the same run without a texture writes.
C5_TextureFailureDegrades ==
  (pc = "done" /\ image # NoImage /\ texture # "none" /\ LoadImage(texture) # "ok") =>
    /\ exc = "none"
    /\ fs["output"].exists
    /\ fs["output"].data = NoTextureText
    /\ LinesOfKind(fs["output"].data, <<"v", "t">>) = {}

C7_TextureUVs ==
  (pc = "done" /\ exc = "none" /\ call # NoCall) =>
    LET data == fs[call.output_path].data
        slashed == {i \in LinesOfKind(data, <<"f">>) :
                      \E k \in 1..Len(FileLines(data)[i]) : FileLines(data)[i][k] = "/"}
    IN /\ texture_img # NoImage =>
            /\ Cardinality(LinesOfKind(data, <<"v", "t">>)) = Len(heap[call.vertices])
            /\ slashed = LinesOfKind(data, <<"f">>)
       /\ texture = "none" =>
            /\ LinesOfKind(data, <<"v", "t">>) = {}
            /\ slashed = {}

\* C8: when save_obj fails, the output path does not exist or still holds
\* its previous complete content.
C8_NoPartialOutput ==
  (pc = "done" /\ exc = "OSError") => Untouched(fs["output"])

\* C9: in both entry points a run whose source image loaded ends complete,
\* having called save_obj with the styled vertices, the faces and the output
\* path, the output holding one "v" line per styled vertex.  (Stated for the
\* runs whose texture, if any, loads and whose file system does not fail.)
C9_ReachesSerializer ==
  (/\ pc = "done"
   /\ image # NoImage
   /\ exc # "OSError"
   /\ texture = "none" \/ LoadImage(texture) = "ok") =>
    /\ exc = "none"
    /\ call = [vertices |-> vertices_styled, faces |-> faces, output_path |-> "output"]
    /\ Len(ui) > 0
    /\ ui[Len(ui)] \in {"Model saved", "success: Conversion complete!"}
    /\ Cardinality(LinesOfKind(fs["output"].data, <<"v">>)) = Len(heap[vertices_styled])

====
